---- MODULE Spec2Model ----
(***************************************************************************)
(* A model of the googledrive package: the Client built by New and its      *)
(* operations, each a single pass through the capability facades            *)
(* (interfaces.go) to the remote service, plus the local file system that   *)
(* DownloadFile writes to.                                                   *)
(*                                                                           *)
(* A Go string is a sequence of one-character strings, so that formatting,  *)
(* concatenation and filepath.Base are computed character by character.     *)
(* A Go pointer or error that may be nil is a sequence of length 0 (nil)    *)
(* or 1 (the value).                                                         *)
(***************************************************************************)
EXTENDS Naturals, Sequences, FiniteSets

VARIABLES
  newDriveService,  \* binding of the package variable newDriveService
  osCreate,         \* binding of the package variable osCreate
  ioCopy,           \* binding of the package variable ioCopy
  client,           \* the Client the caller holds: <<>> or <<[srv, pSrv]>>
  last,             \* the call that returned last: operation, arguments,
                    \* facade steps taken, result and error
  remote,           \* the entities the remote service holds
  fs,               \* the local file system: path -> content
  callsLeft,        \* number of calls the run may still make
  running,          \* goroutine -> its own variables while it is in a call
  calls,            \* place on the heap -> the call object built there
  panicked          \* the process has ended in a run-time panic

vars ==
  <<newDriveService, osCreate, ioCopy, client, last, remote, fs, callsLeft,
    running, calls, panicked>>

\* A run makes at most MaxCalls calls of New and of the client's operations;
\* a run of folder operations alone makes at most MaxFolderCalls.
MaxCalls == 2
MaxFolderCalls == 3

(***************************************************************************)
(* Constants of googledrive.go                                             *)
(***************************************************************************)
OwnerRole ==
  <<"o","w","n","e","r">>

OrganizerRole ==
  <<"o","r","g","a","n","i","z","e","r">>

FileOrganizerRole ==
  <<"f","i","l","e","O","r","g","a","n","i","z","e","r">>

WriterRole ==
  <<"w","r","i","t","e","r">>

CommenterRole ==
  <<"c","o","m","m","e","n","t","e","r">>

ReaderRole ==
  <<"r","e","a","d","e","r">>

UserGranteeType ==
  <<"u","s","e","r">>

GroupGranteeType ==
  <<"g","r","o","u","p">>

DomainGranteeType ==
  <<"d","o","m","a","i","n">>

AnyoneGranteeType ==
  <<"a","n","y","o","n","e">>

mimeType ==
  <<"a","p","p","l","i","c","a","t","i","o","n","/","v","n","d",".","g","o","o","g","l","e","-","a","p","p","s",".","f","o","l","d","e","r">>

fmtCreatingDriveService ==
  <<"c","r","e","a","t","i","n","g"," ","d","r","i","v","e"," ","s","e","r","v","i","c","e">>

fmtCreatingFolder ==
  <<"c","r","e","a","t","i","n","g"," ","f","o","l","d","e","r"," ","%","s"," ","u","n","d","e","r"," ","p","a","r","e","n","t"," ","f","o","l","d","e","r","s"," ","%","v">>

fmtGettingFile ==
  <<"g","e","t","t","i","n","g"," ","f","i","l","e"," ","w","i","t","h"," ","i","d"," ","%","s">>

fmtCreatingFile ==
  <<"c","r","e","a","t","i","n","g"," ","f","i","l","e"," ","%","s"," ","u","n","d","e","r"," ","p","a","r","e","n","t"," ","f","o","l","d","e","r","s"," ","%","v">>

fmtDeletingFile ==
  <<"d","e","l","e","t","i","n","g"," ","f","i","l","e"," ","w","i","t","h"," ","i","d"," ","%","s">>

fmtAssignUser ==
  <<"a","s","s","i","g","n","i","n","g"," ","r","o","l","e"," ","%","s"," ","o","n"," ","f","i","l","e"," ","w","i","t","h"," ","i","d"," ","%","s"," ","t","o"," ","e","m","a","i","l"," ","a","d","d","r","e","s","s"," ","%","s">>

fmtAssignGroup ==
  <<"a","s","s","i","g","n","i","n","g"," ","r","o","l","e"," ","%","s"," ","o","n"," ","f","i","l","e"," ","w","i","t","h"," ","i","d"," ","%","s"," ","t","o"," ","e","m","a","i","l"," ","a","d","d","r","e","s","s"," ","%","s">>

fmtAssignDomain ==
  <<"a","s","s","i","g","n","i","n","g"," ","r","o","l","e"," ","%","s"," ","o","n"," ","f","i","l","e"," ","w","i","t","h"," ","i","d"," ","%","s"," ","t","o"," ","d","o","m","a","i","n"," ","%","s">>

fmtAssignAnyone ==
  <<"a","s","s","i","g","n","i","n","g"," ","r","o","l","e"," ","%","s"," ","o","n"," ","f","i","l","e"," ","w","i","t","h"," ","i","d"," ","%","s"," ","t","o"," ","a","n","y","o","n","e">>

fmtDownloadingFile ==
  <<"d","o","w","n","l","o","a","d","i","n","g"," ","f","i","l","e"," ","w","i","t","h"," ","i","d"," ","%","s">>

fmtCreatingOutputFile ==
  <<"c","r","e","a","t","i","n","g"," ","o","u","t","p","u","t"," ","f","i","l","e"," ","%","s">>

\* A variant of the copy failure's text that repeats the creation failure's.
fmtWritingOutputFileAsCreating == fmtCreatingOutputFile

fmtWritingOutputFile ==
  <<"w","r","i","t","i","n","g"," ","o","u","t","p","u","t"," ","f","i","l","e"," ","%","s">>

fmtUpdatingFile ==
  <<"u","p","d","a","t","i","n","g"," ","f","i","l","e"," ","%","s">>

(***************************************************************************)
(* fmt.Sprintf and github.com/pkg/errors, as far as the package uses them   *)
(***************************************************************************)

\* An operand of Sprintf: a string, or a slice of strings.
Str(s) == [kind |-> "string", v |-> s]
Slice(l) == [kind |-> "slice", v |-> l]

RECURSIVE JoinSp(_)
\* The elements of a slice of strings separated by single spaces.
JoinSp(l) ==
  IF l = <<>> THEN <<>>
  ELSE IF Len(l) = 1 THEN l[1]
  ELSE l[1] \o <<" ">> \o JoinSp(Tail(l))

\* How %s and %v print an operand: a string as itself, a slice of strings
\* as its elements between brackets, separated by spaces.
FormatOperand(a) ==
  IF a.kind = "string" THEN a.v ELSE <<"[">> \o JoinSp(a.v) \o <<"]">>

RECURSIVE Sprintf(_, _)
\* fmt.Sprintf(format, a...) for the verbs %s and %v; operands are copied
\* into the output and never read as format text.
Sprintf(format, a) ==
  IF format = <<>> THEN <<>>
  ELSE IF Head(format) = "%" /\ Len(format) >= 2 /\ format[2] \in {"s", "v"}
    THEN IF a = <<>>
           THEN <<"%", "!", format[2], "(", "M", "I", "S", "S", "I", "N", "G", ")">>
                  \o Sprintf(SubSeq(format, 3, Len(format)), a)
           ELSE FormatOperand(Head(a))
                  \o Sprintf(SubSeq(format, 3, Len(format)), Tail(a))
  ELSE <<Head(format)>> \o Sprintf(Tail(format), a)

\* A variant of Wrapf that keeps the formatted text and loses the cause.
WrapfDropsCause(err, format, a) ==
  IF err = <<>> THEN <<>>
  ELSE <<Sprintf(format, a)>>

\* errors.Wrapf(err, format, args...): nil for a nil err, otherwise an error
\* whose message is the formatted text, ": " and err's message.
Wrapf(err, format, a) ==
  IF err = <<>> THEN <<>>
  ELSE <<Sprintf(format, a) \o <<":", " ">> \o err[1]>>

\* errors.Wrap(err, message): as Wrapf, with the message taken literally.
Wrap(err, message) ==
  IF err = <<>> THEN <<>>
  ELSE <<message \o <<":", " ">> \o err[1]>>

(***************************************************************************)
(* path/filepath.Base (Unix separator)                                     *)
(***************************************************************************)

RECURSIVE StripTrailingSlashes(_)
StripTrailingSlashes(path) ==
  IF path # <<>> /\ path[Len(path)] = "/"
    THEN StripTrailingSlashes(SubSeq(path, 1, Len(path) - 1))
    ELSE path

RECURSIVE LastElement(_)
\* The part of path after its last separator.
LastElement(path) ==
  IF path = <<>> \/ path[Len(path)] = "/" THEN <<>>
  ELSE LastElement(SubSeq(path, 1, Len(path) - 1)) \o <<path[Len(path)]>>

Base(path) ==
  IF path = <<>> THEN <<".">>
  ELSE LET stripped == StripTrailingSlashes(path)
       IN IF stripped = <<>> THEN <<"/">> ELSE LastElement(stripped)

(***************************************************************************)
(* Inputs the model draws from                                             *)
(***************************************************************************)

FileIds == {<<"x">>, <<"y">>}
FolderNames == {<<"a">>, <<"%", "s">>}
ParentLists == {<<>>, <<<<"x">>>>, <<<<"x">>, <<"y">>>>}
\* Names of local source files, as os.File.Name reports them.
SourceNames == {<<"a">>, <<"d", "/", "a">>, <<"d", "/", "b", "/">>, <<>>, <<"/">>}
\* The *os.File a caller hands to UploadFile: an open file, or nil.
SourceFiles == {<<[name |-> name]>> : name \in SourceNames} \cup {<<>>}
\* Messages of the errors the remote service and the file system report.
Causes == {<<"e">>, <<"f">>}
RoleInputs == {ReaderRole, OwnerRole, <<"z">>}
Grantees == {<<"g">>, <<>>}
OutputFiles == {<<"o">>, <<"t", "/", "o">>}
CredsFilePaths == {<<"c">>}
\* The name of the temporary file a substituted osCreate hands back.
TmpName == <<"t", "m", "p">>

\* A *drive.File: the fields the package and its callers read.
File(id, name, mime, parents) ==
  [Id |-> id, Name |-> name, MimeType |-> mime, Parents |-> parents]

\* What a terminal Do step that yields a *drive.File can answer.
FileResponses ==
  {[file |-> <<File(id, <<"n">>, <<>>, <<>>)>>, err |-> <<>>] : id \in FileIds}
    \cup {[file |-> <<>>, err |-> <<m>>] : m \in Causes}

\* What a terminal Do step that yields only an error can answer.
ErrorResponses == {[err |-> <<>>]} \cup {[err |-> <<m>>] : m \in Causes}

\* What the Download step can answer: a response with a body, or an error.
DownloadResponses ==
  {[body |-> <<"body">>, err |-> <<>>]}
    \cup {[body |-> <<>>, err |-> <<m>>] : m \in Causes}

\* The *drive.Service the construction step yields.
Service == [Files |-> "FilesService", Permissions |-> "PermissionsService"]

ServiceResponses ==
  {[srv |-> <<Service>>, err |-> <<>>]}
    \cup {[srv |-> <<>>, err |-> <<m>>] : m \in Causes}

\* A variant in which the destination is always opened by os.Create, whatever
\* is bound to osCreate.
OsCreateResponsesDirect(binding, name) ==
  {[f |-> <<[name |-> name]>>, err |-> <<>>]}
    \cup {[f |-> <<>>, err |-> <<m>>] : m \in Causes}

\* What the function bound to osCreate can answer for a path: os.Create
\* names the file it opens after the path; a substitute may hand back any
\* file, here a temporary one.
OsCreateResponses(binding, name) ==
  {[f |-> <<[name |-> IF binding = "os.Create" THEN name ELSE TmpName]>>,
    err |-> <<>>]}
    \cup {[f |-> <<>>, err |-> <<m>>] : m \in Causes}

\* What the function bound to ioCopy can answer, with what it left in the
\* destination: io.Copy writes all of the body, or stops part way with an
\* error; a substitute writes nothing.
IoCopyResponses(binding) ==
  IF binding = "io.Copy"
    THEN {[err |-> <<>>, wrote |-> "full"]}
           \cup {[err |-> <<m>>, wrote |-> w] : m \in Causes, w \in {"empty", "partial"}}
    ELSE {[err |-> <<>>, wrote |-> "nothing"]}
           \cup {[err |-> <<m>>, wrote |-> "nothing"] : m \in Causes}

(***************************************************************************)
(* The client's operations: what one call does and returns                  *)
(***************************************************************************)

\* One step taken on a facade, the file system or an open resource: its
\* arguments and, for a step that goes to the remote service or to the file
\* system, what it answered.
Step(name, args, ret) == [step |-> name, args |-> args, ret |-> ret]

\* A finished call.
Return(op, args, trace, result, err) ==
  [op |-> op, args |-> args, trace |-> trace, result |-> result, err |-> err]

\* A variant of New that, when construction fails, returns a Client holding
\* no service together with the error.
NewCallReturnsBoth(credsFilePath, resp) ==
  LET trace == <<Step("newDriveService", <<credsFilePath>>, resp)>>
      dsw == [fsw |-> [srv |-> IF resp.srv = <<>> THEN "nil" ELSE resp.srv[1].Files],
              psw |-> [pSrv |-> IF resp.srv = <<>> THEN "nil"
                                ELSE resp.srv[1].Permissions]]
  IN Return("New", <<credsFilePath>>, trace, <<[srv |-> dsw, pSrv |-> dsw.psw]>>,
            Wrap(resp.err, fmtCreatingDriveService))

\* The file facade and the permission facade a driveServiceWrapper hands
\* out: the ones it was built with, the same on every call.
Files(dsw) == dsw.fsw

Permissions(dsw) == dsw.psw

NewCall(credsFilePath, resp) ==
  LET trace == <<Step("newDriveService", <<credsFilePath>>, resp)>>
  IN IF resp.err # <<>>
       THEN Return("New", <<credsFilePath>>, trace, <<>>,
                   Wrap(resp.err, fmtCreatingDriveService))
       ELSE LET dsw == [fsw |-> [srv |-> resp.srv[1].Files],
                        psw |-> [pSrv |-> resp.srv[1].Permissions]]
            IN Return("New", <<credsFilePath>>, trace,
                      <<[srv |-> dsw, pSrv |-> Permissions(dsw)]>>, <<>>)

\* A variant of CreateFolder that returns the created folder's name where
\* the code returns its identifier.
CreateFolderCallReturnsName(folderName, parentFolders, resp) ==
  LET args == <<folderName, parentFolders>>
      trace == <<Step("Files", <<>>, <<>>),
                 Step("Create", <<File(<<>>, folderName, mimeType, parentFolders)>>, <<>>),
                 Step("Do", <<>>, resp)>>
  IN IF resp.err # <<>>
       THEN Return("CreateFolder", args, trace, <<>>,
                   Wrapf(resp.err, fmtCreatingFolder,
                         <<Str(folderName), Slice(parentFolders)>>))
       ELSE Return("CreateFolder", args, trace, resp.file[1].Name, <<>>)

\* A variant of CreateFolder that leaves the MIME type of the descriptor
\* unset.
CreateFolderCallWithoutMimeType(folderName, parentFolders, resp) ==
  LET args == <<folderName, parentFolders>>
      trace == <<Step("Files", <<>>, <<>>),
                 Step("Create", <<File(<<>>, folderName, <<>>, parentFolders)>>, <<>>),
                 Step("Do", <<>>, resp)>>
  IN IF resp.err # <<>>
       THEN Return("CreateFolder", args, trace, <<>>,
                   Wrapf(resp.err, fmtCreatingFolder,
                         <<Str(folderName), Slice(parentFolders)>>))
       ELSE Return("CreateFolder", args, trace, resp.file[1].Id, <<>>)

CreateFolderCall(folderName, parentFolders, resp) ==
  LET args == <<folderName, parentFolders>>
      trace == <<Step("Files", <<>>, <<>>),
                 Step("Create", <<File(<<>>, folderName, mimeType, parentFolders)>>, <<>>),
                 Step("Do", <<>>, resp)>>
  IN IF resp.err # <<>>
       THEN Return("CreateFolder", args, trace, <<>>,
                   Wrapf(resp.err, fmtCreatingFolder,
                         <<Str(folderName), Slice(parentFolders)>>))
       ELSE Return("CreateFolder", args, trace, resp.file[1].Id, <<>>)

\* A variant of GetFileById that hands back a record holding only the
\* identifier of the one the facade produced.
GetFileByIdCallKeepsIdOnly(fileId, resp) ==
  LET trace == <<Step("Files", <<>>, <<>>), Step("Get", <<fileId>>, <<>>), Step("Do", <<>>, resp)>>
  IN IF resp.err # <<>>
       THEN Return("GetFileById", <<fileId>>, trace, <<>>,
                   Wrapf(resp.err, fmtGettingFile, <<Str(fileId)>>))
       ELSE Return("GetFileById", <<fileId>>, trace,
                   <<File(resp.file[1].Id, <<>>, <<>>, <<>>)>>, <<>>)

GetFileByIdCall(fileId, resp) ==
  LET trace == <<Step("Files", <<>>, <<>>), Step("Get", <<fileId>>, <<>>), Step("Do", <<>>, resp)>>
  IN IF resp.err # <<>>
       THEN Return("GetFileById", <<fileId>>, trace, <<>>,
                   Wrapf(resp.err, fmtGettingFile, <<Str(fileId)>>))
       ELSE Return("GetFileById", <<fileId>>, trace, resp.file, <<>>)

\* A variant of UploadFile that names the remote file after the source's
\* whole path.
UploadFileCallKeepsPath(file, parentFolders, resp) ==
  LET args == <<file, parentFolders>>
      trace == <<Step("Files", <<>>, <<>>),
                 Step("Create", <<File(<<>>, file.name, <<>>, parentFolders)>>, <<>>),
                 Step("Media", <<file>>, <<>>),
                 Step("Do", <<>>, resp)>>
  IN IF resp.err # <<>>
       THEN Return("UploadFile", args, trace, <<>>,
                   Wrapf(resp.err, fmtCreatingFile,
                         <<Str(file.name), Slice(parentFolders)>>))
       ELSE Return("UploadFile", args, trace, resp.file[1].Id, <<>>)

\* file is the *os.File: [name |-> the name it was opened with].
UploadFileCall(file, parentFolders, resp) ==
  LET args == <<file, parentFolders>>
      trace == <<Step("Files", <<>>, <<>>),
                 Step("Create", <<File(<<>>, Base(file.name), <<>>, parentFolders)>>, <<>>),
                 Step("Media", <<file>>, <<>>),
                 Step("Do", <<>>, resp)>>
  IN IF resp.err # <<>>
       THEN Return("UploadFile", args, trace, <<>>,
                   Wrapf(resp.err, fmtCreatingFile,
                         <<Str(file.name), Slice(parentFolders)>>))
       ELSE Return("UploadFile", args, trace, resp.file[1].Id, <<>>)

\* A variant of DeleteFile that tries once more when the delete fails.
DeleteFileCallRetries(fileId, resp) ==
  LET once == <<Step("Files", <<>>, <<>>), Step("Delete", <<fileId>>, <<>>), Step("Do", <<>>, resp)>>
  IN Return("DeleteFile", <<fileId>>,
            IF resp.err # <<>> THEN once \o once ELSE once, <<>>,
            Wrapf(resp.err, fmtDeletingFile, <<Str(fileId)>>))

\* A variant of DeleteFile that treats a failed delete as done.
DeleteFileCallIgnoresError(fileId, resp) ==
  LET trace == <<Step("Files", <<>>, <<>>), Step("Delete", <<fileId>>, <<>>), Step("Do", <<>>, resp)>>
  IN Return("DeleteFile", <<fileId>>, trace, <<>>, <<>>)

DeleteFileCall(fileId, resp) ==
  LET trace == <<Step("Files", <<>>, <<>>), Step("Delete", <<fileId>>, <<>>), Step("Do", <<>>, resp)>>
  IN Return("DeleteFile", <<fileId>>, trace, <<>>,
            Wrapf(resp.err, fmtDeletingFile, <<Str(fileId)>>))

\* A variant of the grant that writes the grantee, whichever it is, into
\* both grantee fields.
PermissionFillsBothFields(type, role, emailAddress, domain) ==
  [Type |-> type, Role |-> role, EmailAddress |-> emailAddress \o domain,
   Domain |-> emailAddress \o domain]

\* A variant of the grant that turns a role outside the package's role
\* constants into the reader role.
PermissionKnownRolesOnly(type, role, emailAddress, domain) ==
  [Type |-> type,
   Role |-> IF role \in {OwnerRole, OrganizerRole, FileOrganizerRole, WriterRole,
                         CommenterRole, ReaderRole}
              THEN role ELSE ReaderRole,
   EmailAddress |-> emailAddress, Domain |-> domain]

\* A *drive.Permission; a field the caller leaves out is the empty string.
Permission(type, role, emailAddress, domain) ==
  [Type |-> type, Role |-> role, EmailAddress |-> emailAddress, Domain |-> domain]

assignPermissionOnFile(permission, fileId, resp) ==
  [trace |-> <<Step("pSrv.Create", <<fileId, permission>>, <<>>), Step("Do", <<>>, resp)>>,
   err |-> resp.err]

AssignRoleToUserOnFileCall(role, emailAddress, fileId, resp) ==
  LET r == assignPermissionOnFile(
             Permission(UserGranteeType, role, emailAddress, <<>>), fileId, resp)
  IN Return("AssignRoleToUserOnFile", <<role, emailAddress, fileId>>, r.trace, <<>>,
            Wrapf(r.err, fmtAssignUser, <<Str(role), Str(fileId), Str(emailAddress)>>))

\* A variant of AssignRoleToGroupOnFile that builds a user grant.
AssignRoleToGroupOnFileCallAsUser(role, emailAddress, fileId, resp) ==
  LET r == assignPermissionOnFile(
             Permission(UserGranteeType, role, emailAddress, <<>>), fileId, resp)
  IN Return("AssignRoleToGroupOnFile", <<role, emailAddress, fileId>>, r.trace, <<>>,
            Wrapf(r.err, fmtAssignGroup, <<Str(role), Str(fileId), Str(emailAddress)>>))

AssignRoleToGroupOnFileCall(role, emailAddress, fileId, resp) ==
  LET r == assignPermissionOnFile(
             Permission(GroupGranteeType, role, emailAddress, <<>>), fileId, resp)
  IN Return("AssignRoleToGroupOnFile", <<role, emailAddress, fileId>>, r.trace, <<>>,
            Wrapf(r.err, fmtAssignGroup, <<Str(role), Str(fileId), Str(emailAddress)>>))

\* A variant of AssignRoleToDomainOnFile whose error names the file where
\* the code names the role and the role where it names the file.
AssignRoleToDomainOnFileCallSwapsOperands(role, domain, fileId, resp) ==
  LET r == assignPermissionOnFile(
             Permission(DomainGranteeType, role, <<>>, domain), fileId, resp)
  IN Return("AssignRoleToDomainOnFile", <<role, domain, fileId>>, r.trace, <<>>,
            Wrapf(r.err, fmtAssignDomain, <<Str(fileId), Str(role), Str(domain)>>))

AssignRoleToDomainOnFileCall(role, domain, fileId, resp) ==
  LET r == assignPermissionOnFile(
             Permission(DomainGranteeType, role, <<>>, domain), fileId, resp)
  IN Return("AssignRoleToDomainOnFile", <<role, domain, fileId>>, r.trace, <<>>,
            Wrapf(r.err, fmtAssignDomain, <<Str(role), Str(fileId), Str(domain)>>))

AssignRoleToAnyoneOnFileCall(role, fileId, resp) ==
  LET r == assignPermissionOnFile(
             Permission(AnyoneGranteeType, role, <<>>, <<>>), fileId, resp)
  IN Return("AssignRoleToAnyoneOnFile", <<role, fileId>>, r.trace, <<>>,
            Wrapf(r.err, fmtAssignAnyone, <<Str(role), Str(fileId)>>))

\* A variant of DownloadFile that returns the path it was given where the
\* code returns the name of the file it created.
DownloadFileCallReturnsArgument(fileId, outputFile, dl, cr, cp) ==
  LET args == <<fileId, outputFile>>
      fetch == <<Step("Files", <<>>, <<>>), Step("Get", <<fileId>>, <<>>), Step("Download", <<>>, dl)>>
      create == fetch \o <<Step("osCreate", <<outputFile>>, cr)>>
      copy == create \o <<Step("ioCopy", <<cr.f, dl.body>>, cp)>>
      closeBody == <<Step("Body.Close", <<>>, <<>>)>>
      closeBoth == <<Step("f.Close", <<>>, <<>>), Step("Body.Close", <<>>, <<>>)>>
  IN IF dl.err # <<>>
       THEN Return("DownloadFile", args, fetch, <<>>,
                   Wrapf(dl.err, fmtDownloadingFile, <<Str(fileId)>>))
     ELSE IF cr.err # <<>>
       THEN Return("DownloadFile", args, create \o closeBody, <<>>,
                   Wrapf(cr.err, fmtCreatingOutputFile, <<Str(outputFile)>>))
     ELSE IF cp.err # <<>>
       THEN Return("DownloadFile", args, copy \o closeBoth, <<>>,
                   Wrapf(cp.err, fmtWritingOutputFile, <<Str(outputFile)>>))
     ELSE Return("DownloadFile", args, copy \o closeBoth, outputFile, <<>>)

\* A variant of DownloadFile that, as the repository's example program does
\* with the file it opens, never closes the destination.
DownloadFileCallLeavesFileOpen(fileId, outputFile, dl, cr, cp) ==
  LET args == <<fileId, outputFile>>
      fetch == <<Step("Files", <<>>, <<>>), Step("Get", <<fileId>>, <<>>), Step("Download", <<>>, dl)>>
      create == fetch \o <<Step("osCreate", <<outputFile>>, cr)>>
      copy == create \o <<Step("ioCopy", <<cr.f, dl.body>>, cp)>>
      closeBody == <<Step("Body.Close", <<>>, <<>>)>>
  IN IF dl.err # <<>>
       THEN Return("DownloadFile", args, fetch, <<>>,
                   Wrapf(dl.err, fmtDownloadingFile, <<Str(fileId)>>))
     ELSE IF cr.err # <<>>
       THEN Return("DownloadFile", args, create \o closeBody, <<>>,
                   Wrapf(cr.err, fmtCreatingOutputFile, <<Str(outputFile)>>))
     ELSE IF cp.err # <<>>
       THEN Return("DownloadFile", args, copy \o closeBody, <<>>,
                   Wrapf(cp.err, fmtWritingOutputFile, <<Str(outputFile)>>))
     ELSE Return("DownloadFile", args, copy \o closeBody, cr.f[1].name, <<>>)

\* A variant of DownloadFile that opens the destination before it asks the
\* remote service for the content.
DownloadFileCallCreatesFirst(fileId, outputFile, dl, cr, cp) ==
  LET args == <<fileId, outputFile>>
      create == <<Step("osCreate", <<outputFile>>, cr)>>
      fetch == create \o <<Step("Files", <<>>, <<>>), Step("Get", <<fileId>>, <<>>),
                           Step("Download", <<>>, dl)>>
      copy == fetch \o <<Step("ioCopy", <<cr.f, dl.body>>, cp)>>
      closeFile == <<Step("f.Close", <<>>, <<>>)>>
      closeBoth == <<Step("Body.Close", <<>>, <<>>), Step("f.Close", <<>>, <<>>)>>
  IN IF cr.err # <<>>
       THEN Return("DownloadFile", args, create, <<>>,
                   Wrapf(cr.err, fmtCreatingOutputFile, <<Str(outputFile)>>))
     ELSE IF dl.err # <<>>
       THEN Return("DownloadFile", args, fetch \o closeFile, <<>>,
                   Wrapf(dl.err, fmtDownloadingFile, <<Str(fileId)>>))
     ELSE IF cp.err # <<>>
       THEN Return("DownloadFile", args, copy \o closeBoth, <<>>,
                   Wrapf(cp.err, fmtWritingOutputFile, <<Str(outputFile)>>))
     ELSE Return("DownloadFile", args, copy \o closeBoth, cr.f[1].name, <<>>)

\* dl, cr and cp are the answers of the Download step, of osCreate and of
\* ioCopy; the deferred Close calls run as the function returns, the
\* destination's before the body's.
DownloadFileCall(fileId, outputFile, dl, cr, cp) ==
  LET args == <<fileId, outputFile>>
      fetch == <<Step("Files", <<>>, <<>>), Step("Get", <<fileId>>, <<>>), Step("Download", <<>>, dl)>>
      create == fetch \o <<Step("osCreate", <<outputFile>>, cr)>>
      copy == create \o <<Step("ioCopy", <<cr.f, dl.body>>, cp)>>
      closeBody == <<Step("Body.Close", <<>>, <<>>)>>
      closeBoth == <<Step("f.Close", <<>>, <<>>), Step("Body.Close", <<>>, <<>>)>>
  IN IF dl.err # <<>>
       THEN Return("DownloadFile", args, fetch, <<>>,
                   Wrapf(dl.err, fmtDownloadingFile, <<Str(fileId)>>))
     ELSE IF cr.err # <<>>
       THEN Return("DownloadFile", args, create \o closeBody, <<>>,
                   Wrapf(cr.err, fmtCreatingOutputFile, <<Str(outputFile)>>))
     ELSE IF cp.err # <<>>
       THEN Return("DownloadFile", args, copy \o closeBoth, <<>>,
                   Wrapf(cp.err, fmtWritingOutputFile, <<Str(outputFile)>>))
     ELSE Return("DownloadFile", args, copy \o closeBoth, cr.f[1].name, <<>>)

\* A variant of UpdateFile that hands the update call an empty metadata
\* object.
UpdateFileCallWithMetadata(fileId, newContent, resp) ==
  LET args == <<fileId, newContent>>
      trace == <<Step("Files", <<>>, <<>>),
                 Step("Update", <<fileId, <<File(<<>>, <<>>, <<>>, <<>>)>>>>, <<>>),
                 Step("Media", <<newContent>>, <<>>),
                 Step("Do", <<>>, resp)>>
  IN IF resp.err # <<>>
       THEN Return("UpdateFile", args, trace, <<>>,
                   Wrapf(resp.err, fmtUpdatingFile, <<Str(fileId)>>))
       ELSE Return("UpdateFile", args, trace, resp.file[1].Id, <<>>)

\* newContent is the *os.File with the new content; the update call gets no
\* metadata object.
UpdateFileCall(fileId, newContent, resp) ==
  LET args == <<fileId, newContent>>
      trace == <<Step("Files", <<>>, <<>>),
                 Step("Update", <<fileId, <<>>>>, <<>>),
                 Step("Media", <<newContent>>, <<>>),
                 Step("Do", <<>>, resp)>>
  IN IF resp.err # <<>>
       THEN Return("UpdateFile", args, trace, <<>>,
                   Wrapf(resp.err, fmtUpdatingFile, <<Str(fileId)>>))
       ELSE Return("UpdateFile", args, trace, resp.file[1].Id, <<>>)

(***************************************************************************)
(* What a call leaves behind at the remote service and on the local disk    *)
(***************************************************************************)

\* The positions of a trace at which the named step was taken.
StepsNamed(trace, name) == {i \in 1..Len(trace) : trace[i].step = name}

\* An entity the remote service holds.
Entity(id, file, media) ==
  [Id |-> id, Name |-> file.Name, MimeType |-> file.MimeType,
   Parents |-> file.Parents, Media |-> media]

\* The one position of a trace at which the named step was taken.
StepNamed(trace, name) == trace[CHOOSE i \in StepsNamed(trace, name) : TRUE]

RECURSIVE RemoteAfter(_, _)
\* The remote entities after the steps of a trace on the file facade, taken
\* in order: an executed create adds an entity under the identifier the
\* service answered with, an executed delete removes the entity, an
\* executed update with content attached replaces its content.  A step that
\* failed changes nothing.
RemoteAfter(rem, trace) ==
  IF trace = <<>> THEN rem
  ELSE LET n == Len(trace)
           before == SubSeq(trace, 1, n - 1)
           rest == RemoteAfter(rem, before)
           media == StepsNamed(before, "Media") # {}
       IN IF trace[n].step # "Do" \/ trace[n].ret.err # <<>> THEN rest
          ELSE IF StepsNamed(before, "Create") # {}
            THEN Append(rest, Entity(trace[n].ret.file[1].Id,
                                     StepNamed(before, "Create").args[1], media))
          ELSE IF StepsNamed(before, "Delete") # {}
            THEN SelectSeq(rest,
                   LAMBDA e : e.Id # StepNamed(before, "Delete").args[1])
          ELSE IF StepsNamed(before, "Update") # {} /\ media
            THEN [k \in 1..Len(rest) |->
                    IF rest[k].Id = StepNamed(before, "Update").args[1]
                      THEN [rest[k] EXCEPT !.Media = TRUE]
                      ELSE rest[k]]
          ELSE rest

\* A variant in which a copy that fails puts the destination back as it was
\* before the call.
FsAfterRollsBack(files, trace) ==
  LET created == StepsNamed(trace, "osCreate") # {}
                   /\ StepNamed(trace, "osCreate").ret.err = <<>>
      copied == StepsNamed(trace, "ioCopy") # {}
  IN IF ~created THEN files
     ELSE IF copied /\ StepNamed(trace, "ioCopy").ret.err # <<>> THEN files
     ELSE [files EXCEPT ![StepNamed(trace, "osCreate").ret.f[1].name] =
             IF copied /\ StepNamed(trace, "ioCopy").ret.wrote # "nothing"
               THEN StepNamed(trace, "ioCopy").ret.wrote
               ELSE "empty"]

\* The local files after the steps of a DownloadFile call: a successful
\* osCreate leaves the file it opened empty (created or truncated), and
\* ioCopy then leaves in it what it wrote.
FsAfter(files, trace) ==
  LET created == StepsNamed(trace, "osCreate") # {}
                   /\ StepNamed(trace, "osCreate").ret.err = <<>>
      copied == StepsNamed(trace, "ioCopy") # {}
  IN IF ~created THEN files
     ELSE [files EXCEPT ![StepNamed(trace, "osCreate").ret.f[1].name] =
             IF copied /\ StepNamed(trace, "ioCopy").ret.wrote # "nothing"
               THEN StepNamed(trace, "ioCopy").ret.wrote
               ELSE "empty"]

(***************************************************************************)
(* The state machine                                                       *)
(***************************************************************************)

NoCall == Return("none", <<>>, <<>>, <<>>, <<>>)

\* The goroutines that call the client's operations at the same time.
Procs == {"p", "q"}

\* The types of the call objects the facades hand out.
CallTypes ==
  {"filesCreateCall", "filesGetCall", "filesDeleteCall", "filesUpdateCall",
   "permissionsCreateCall"}

\* What a goroutine is asked to do: an operation, its arguments and the
\* answers the remote service and the file system hold ready for it.
NoPlan == [op |-> "none", args |-> <<>>, answers |-> <<>>]

\* A goroutine's own variables: the call it is in, the steps the code of the
\* call takes given the answers it has got, the number of steps it has
\* taken, the facade it works on, the call object it holds, the answers it
\* has got and, once it has returned, what it returned.
Idle ==
  [state |-> "idle", plan |-> NoPlan, steps |-> <<>>, pc |-> 0, svc |-> <<>>,
   ref |-> <<>>, seen |-> <<>>, result |-> <<>>, err |-> <<>>]

\* A place on the heap where no call object has been built.
NoObject == [owner |-> "none", request |-> <<>>, answer |-> <<>>]

\* A variant of the file facade that, like the mock of the package's tests,
\* keeps one create call and hands that same object to every caller.
CallSlotOneCreateCall(p, type) ==
  IF type = "filesCreateCall" THEN <<"p", type>> ELSE <<p, type>>

\* A variant of Media that hands back a call to which the content was not
\* attached.
MediaReturnsBareCall(call, r) == call

\* Media of a create or update call wrapper: attaches the content r to the
\* call it is invoked on and returns that same call.
Media(call, r) ==
  [call EXCEPT !.request = Append(@, Step("Media", <<r>>, <<>>))]

\* Where the call object lives that a facade hands to goroutine p: each
\* Create, Get, Delete and Update of the wrappers allocates a new object.
CallSlot(p, type) == <<p, type>>

Init ==
  /\ newDriveService = "drive.NewService"
  /\ osCreate = "os.Create"
  /\ ioCopy = "io.Copy"
  /\ client = <<>>
  /\ last = NoCall
  /\ remote = <<>>
  /\ fs = [p \in OutputFiles \cup {TmpName} |->
             IF p = <<"t", "/", "o">> THEN "old" ELSE "absent"]
  /\ callsLeft = MaxCalls
  /\ running = [p \in Procs |-> Idle]
  /\ calls = [slot \in Procs \X CallTypes |-> NoObject]
  /\ panicked = FALSE

\* The package variables are reassigned by the package's tests.
RebindNewDriveService ==
  /\ ~panicked
  /\ newDriveService' \in {"drive.NewService", "stub"} \ {newDriveService}
  /\ UNCHANGED <<panicked, running, calls, osCreate, ioCopy, client, last, remote, fs, callsLeft>>

RebindOsCreate ==
  /\ ~panicked
  /\ osCreate' \in {"os.Create", "stub"} \ {osCreate}
  /\ UNCHANGED <<panicked, running, calls, newDriveService, ioCopy, client, last, remote, fs, callsLeft>>

RebindIoCopy ==
  /\ ~panicked
  /\ ioCopy' \in {"io.Copy", "stub"} \ {ioCopy}
  /\ UNCHANGED <<panicked, running, calls, newDriveService, osCreate, client, last, remote, fs, callsLeft>>

New ==
  /\ callsLeft > 0 /\ ~panicked
  /\ \E credsFilePath \in CredsFilePaths, resp \in ServiceResponses :
       LET call == NewCall(credsFilePath, resp)
       IN /\ last' = call
          /\ client' = IF call.result # <<>> THEN call.result ELSE client
  /\ callsLeft' = callsLeft - 1
  /\ UNCHANGED <<panicked, running, calls, newDriveService, osCreate, ioCopy, remote, fs>>

\* A variant of the operations on the file facade that keeps the error of
\* the call in the Client.
FileCallKeepsError(call) ==
  /\ last' = call
  /\ remote' = RemoteAfter(remote, call.trace)
  /\ callsLeft' = callsLeft - 1
  /\ client' = <<[srv |-> client[1].srv, pSrv |-> client[1].pSrv,
                  lastErr |-> call.err]>>
  /\ UNCHANGED <<panicked, running, calls, newDriveService, osCreate, ioCopy, fs>>

\* A call of an operation that goes to the file facade only.
FileCall(call) ==
  /\ last' = call
  /\ remote' = RemoteAfter(remote, call.trace)
  /\ callsLeft' = callsLeft - 1
  /\ UNCHANGED <<panicked, running, calls, newDriveService, osCreate, ioCopy, client, fs>>

\* A call of an operation that goes to the permission facade.
PermissionCall(call) ==
  /\ last' = call
  /\ callsLeft' = callsLeft - 1
  /\ UNCHANGED <<panicked, running, calls, newDriveService, osCreate, ioCopy, client, remote, fs>>

\* A variant of CreateFolder that first looks for a folder of the same name
\* under the same parents and, when there is one, returns its identifier
\* without creating anything.
CreateFolderReusesExisting ==
  /\ client # <<>> /\ callsLeft > 0 /\ ~panicked
  /\ \E folderName \in FolderNames, parentFolders \in ParentLists,
        resp \in FileResponses :
       LET same == {k \in 1..Len(remote) :
                      /\ remote[k].Name = folderName
                      /\ remote[k].Parents = parentFolders
                      /\ remote[k].MimeType = mimeType}
           call == CreateFolderCall(folderName, parentFolders, resp)
       IN IF same = {} \/ resp.err # <<>>
            THEN FileCall(call)
            ELSE /\ last' = [call EXCEPT
                               !.result = remote[CHOOSE k \in same : TRUE].Id]
                 /\ callsLeft' = callsLeft - 1
                 /\ UNCHANGED <<panicked, running, calls, newDriveService, osCreate, ioCopy, client, remote, fs>>

CreateFolder ==
  /\ client # <<>> /\ callsLeft > 0 /\ ~panicked
  /\ \E folderName \in FolderNames, parentFolders \in ParentLists,
        resp \in FileResponses :
       FileCall(CreateFolderCall(folderName, parentFolders, resp))

GetFileById ==
  /\ client # <<>> /\ callsLeft > 0 /\ ~panicked
  /\ \E fileId \in FileIds, resp \in FileResponses :
       FileCall(GetFileByIdCall(fileId, resp))

UploadFile ==
  /\ client # <<>> /\ callsLeft > 0 /\ ~panicked
  /\ \E file \in SourceFiles, parentFolders \in ParentLists,
        resp \in FileResponses :
       IF file = <<>>
         THEN \* file.Name() on a nil *os.File: the run-time panic ends the
              \* process before any call is built; nothing returns
              /\ panicked' = TRUE
              /\ UNCHANGED <<newDriveService, osCreate, ioCopy, client, last,
                             remote, fs, callsLeft, running, calls>>
         ELSE FileCall(UploadFileCall(file[1], parentFolders, resp))

DeleteFile ==
  /\ client # <<>> /\ callsLeft > 0 /\ ~panicked
  /\ \E fileId \in FileIds, resp \in ErrorResponses :
       FileCall(DeleteFileCall(fileId, resp))

AssignRoleToUserOnFile ==
  /\ client # <<>> /\ callsLeft > 0 /\ ~panicked
  /\ \E role \in RoleInputs, emailAddress \in Grantees, fileId \in FileIds,
        resp \in ErrorResponses :
       PermissionCall(AssignRoleToUserOnFileCall(role, emailAddress, fileId, resp))

AssignRoleToGroupOnFile ==
  /\ client # <<>> /\ callsLeft > 0 /\ ~panicked
  /\ \E role \in RoleInputs, emailAddress \in Grantees, fileId \in FileIds,
        resp \in ErrorResponses :
       PermissionCall(AssignRoleToGroupOnFileCall(role, emailAddress, fileId, resp))

AssignRoleToDomainOnFile ==
  /\ client # <<>> /\ callsLeft > 0 /\ ~panicked
  /\ \E role \in RoleInputs, domain \in Grantees, fileId \in FileIds,
        resp \in ErrorResponses :
       PermissionCall(AssignRoleToDomainOnFileCall(role, domain, fileId, resp))

AssignRoleToAnyoneOnFile ==
  /\ client # <<>> /\ callsLeft > 0 /\ ~panicked
  /\ \E role \in RoleInputs, fileId \in FileIds, resp \in ErrorResponses :
       PermissionCall(AssignRoleToAnyoneOnFileCall(role, fileId, resp))

DownloadFile ==
  /\ client # <<>> /\ callsLeft > 0 /\ ~panicked
  /\ \E fileId \in FileIds, outputFile \in OutputFiles, dl \in DownloadResponses :
     \E cr \in OsCreateResponses(osCreate, outputFile),
        cp \in IoCopyResponses(ioCopy) :
       LET call == DownloadFileCall(fileId, outputFile, dl, cr, cp)
       IN /\ last' = call
          /\ fs' = FsAfter(fs, call.trace)
  /\ callsLeft' = callsLeft - 1
  /\ UNCHANGED <<panicked, running, calls, newDriveService, osCreate, ioCopy, client, remote>>

UpdateFile ==
  /\ client # <<>> /\ callsLeft > 0 /\ ~panicked
  /\ \E fileId \in FileIds, name \in {<<"a">>}, resp \in FileResponses :
       FileCall(UpdateFileCall(fileId, [name |-> name], resp))

Next ==
  \/ RebindNewDriveService
  \/ RebindOsCreate
  \/ RebindIoCopy
  \/ New
  \/ CreateFolder
  \/ GetFileById
  \/ UploadFile
  \/ DeleteFile
  \/ AssignRoleToUserOnFile
  \/ AssignRoleToGroupOnFile
  \/ AssignRoleToDomainOnFile
  \/ AssignRoleToAnyoneOnFile
  \/ DownloadFile
  \/ UpdateFile

Spec == Init /\ [][Next]_vars

\* Longer runs of the operations that create and remove folders, with the
\* package variables as the package sets them.
InitFolders ==
  /\ newDriveService = "drive.NewService"
  /\ osCreate = "os.Create"
  /\ ioCopy = "io.Copy"
  /\ client = <<>>
  /\ last = NoCall
  /\ remote = <<>>
  /\ fs = [p \in OutputFiles \cup {TmpName} |->
             IF p = <<"t", "/", "o">> THEN "old" ELSE "absent"]
  /\ callsLeft = MaxFolderCalls
  /\ running = [p \in Procs |-> Idle]
  /\ calls = [slot \in Procs \X CallTypes |-> NoObject]
  /\ panicked = FALSE

NextFolders ==
  \/ New
  \/ CreateFolder
  \/ DeleteFile

SpecFolders == InitFolders /\ [][NextFolders]_vars

(***************************************************************************)
(* Operations of several goroutines on one Client, step by step            *)
(***************************************************************************)

\* The answer at a position of a list of answers, if it has one.
AnswerAt(answers, i) ==
  IF i <= Len(answers) THEN answers[i] ELSE [err |-> <<>>]

\* The call of a plan, run to its end with the answers of the plan.
CallOf(plan) ==
  LET a == plan.args
      r == plan.answers
  IN CASE plan.op = "CreateFolder" -> CreateFolderCall(a[1], a[2], r[1])
       [] plan.op = "GetFileById" -> GetFileByIdCall(a[1], r[1])
       [] plan.op = "UploadFile" -> UploadFileCall(a[1], a[2], r[1])
       [] plan.op = "DeleteFile" -> DeleteFileCall(a[1], r[1])
       [] plan.op = "AssignRoleToUserOnFile" ->
            AssignRoleToUserOnFileCall(a[1], a[2], a[3], r[1])
       [] plan.op = "AssignRoleToGroupOnFile" ->
            AssignRoleToGroupOnFileCall(a[1], a[2], a[3], r[1])
       [] plan.op = "AssignRoleToDomainOnFile" ->
            AssignRoleToDomainOnFileCall(a[1], a[2], a[3], r[1])
       [] plan.op = "AssignRoleToAnyoneOnFile" ->
            AssignRoleToAnyoneOnFileCall(a[1], a[2], r[1])
       [] plan.op = "DownloadFile" ->
            DownloadFileCall(a[1], a[2], r[1], AnswerAt(r, 2), AnswerAt(r, 3))
       [] plan.op = "UpdateFile" -> UpdateFileCall(a[1], a[2], r[1])

Plan(op, args, answers) == [op |-> op, args |-> args, answers |-> answers]

\* The answers a DownloadFile call can meet, up to the first that fails.
DownloadAnswers(outputFile) ==
  {<<dl>> : dl \in {d \in DownloadResponses : d.err # <<>>}}
    \cup {<<dl, cr>> : dl \in {d \in DownloadResponses : d.err = <<>>},
                       cr \in {c \in OsCreateResponses(osCreate, outputFile) : c.err # <<>>}}
    \cup {<<dl, cr, cp>> : dl \in {d \in DownloadResponses : d.err = <<>>},
                           cr \in {c \in OsCreateResponses(osCreate, outputFile) : c.err = <<>>},
                           cp \in IoCopyResponses(ioCopy)}

\* The calls of an operation the goroutines make.
ConcurrentPlans(op) ==
  CASE op = "CreateFolder" ->
         {Plan(op, <<<<"a">>, <<<<"x">>>>>>, <<r>>) : r \in FileResponses}
    [] op = "UploadFile" ->
         {Plan(op, <<[name |-> <<"d", "/", "a">>], <<>>>>, <<r>>) : r \in FileResponses}
    [] op = "UpdateFile" ->
         {Plan(op, <<<<"x">>, [name |-> <<"a">>]>>, <<r>>) : r \in FileResponses}
    [] op = "GetFileById" ->
         {Plan(op, <<<<"y">>>>, <<r>>) : r \in FileResponses}
    [] op = "DeleteFile" ->
         {Plan(op, <<id>>, <<r>>) : id \in FileIds, r \in ErrorResponses}
    [] op = "AssignRoleToAnyoneOnFile" ->
         {Plan(op, <<ReaderRole, <<"x">>>>, <<r>>) : r \in ErrorResponses}
    [] op = "DownloadFile" ->
         UNION {{Plan(op, <<<<"x">>, o>>, a) : a \in DownloadAnswers(o)} :
                  o \in OutputFiles}
    [] OTHER ->
         {Plan(op, <<ReaderRole, <<"g">>, <<"x">>>>, <<r>>) : r \in ErrorResponses}

\* The type of the call object a step of a facade builds.
TypeOfCall(step) ==
  CASE step = "Create" -> "filesCreateCall"
    [] step = "Get" -> "filesGetCall"
    [] step = "Delete" -> "filesDeleteCall"
    [] step = "Update" -> "filesUpdateCall"
    [] step = "pSrv.Create" -> "permissionsCreateCall"

\* The plan of a goroutine with, in place of the answers held ready, the
\* answers the goroutine has in fact got so far.
Effective(r) ==
  [r.plan EXCEPT !.answers =
     [i \in 1..Len(r.plan.answers) |->
        IF i <= Len(r.seen) THEN r.seen[i] ELSE r.plan.answers[i]]]

\* The goroutine's variables once it has got one more answer: the steps its
\* code takes from there depend on the answer.
Answered(r, answer) ==
  LET got == [r EXCEPT !.seen = Append(@, answer)]
  IN [got EXCEPT !.steps = CallOf(Effective(got)).trace]

\* Goroutine p calls an operation on the Client.
Call(p) ==
  /\ client # <<>> /\ ~panicked
  /\ running[p].state = "idle"
  /\ \E op \in {"CreateFolder", "UploadFile", "UpdateFile", "GetFileById",
                "DeleteFile", "AssignRoleToUserOnFile", "AssignRoleToGroupOnFile",
                "AssignRoleToDomainOnFile", "AssignRoleToAnyoneOnFile",
                "DownloadFile"} :
       \E plan \in ConcurrentPlans(op) :
         running' = [running EXCEPT ![p] =
                       [Idle EXCEPT !.state = "running", !.plan = plan,
                                    !.steps = CallOf(plan).trace]]
  /\ UNCHANGED <<panicked, newDriveService, osCreate, ioCopy, client, last, remote, fs,
                 callsLeft, calls>>

\* What goroutine p needs to take the next step of its call: to be in a
\* call that has a step left.  No step waits for another goroutine.
CanTakeStep(p) ==
  /\ running[p].state = "running"
  /\ running[p].pc < Len(running[p].steps)

\* What goroutine p needs to return from its call: to have taken its steps.
CanReturn(p) ==
  /\ running[p].state = "running"
  /\ running[p].pc = Len(running[p].steps)

\* Goroutine p takes the next step of its call.
TakeStep(p) ==
  LET r == running[p]
      s == r.steps[r.pc + 1]
      next == [r EXCEPT !.pc = r.pc + 1]
  IN /\ CanTakeStep(p)
     /\ \/ \* c.srv.Files(): reads the Client
           /\ s.step = "Files"
           /\ running' = [running EXCEPT ![p] =
                            [next EXCEPT !.svc = <<Files(client[1].srv)>>]]
           /\ UNCHANGED <<calls, remote, fs>>
        \/ \* Create, Get, Delete, Update of a facade: builds a call object
           /\ s.step \in {"Create", "Get", "Delete", "Update", "pSrv.Create"}
           /\ LET slot == CallSlot(p, TypeOfCall(s.step))
                  facade == IF s.step = "pSrv.Create" THEN client[1].pSrv
                            ELSE r.svc[1]
              IN /\ calls' = [calls EXCEPT ![slot] =
                                [owner |-> p, request |-> <<s>>,
                                 answer |-> r.plan.answers[1]]]
                 /\ running' = [running EXCEPT ![p] =
                                  [next EXCEPT !.ref = <<slot>>, !.svc = <<facade>>]]
           /\ UNCHANGED <<remote, fs>>
        \/ \* Media: attaches the content to the call object held
           /\ s.step = "Media"
           /\ calls' = [calls EXCEPT ![r.ref[1]] = Media(@, s.args[1])]
           /\ running' = [running EXCEPT ![p] = next]
           /\ UNCHANGED <<remote, fs>>
        \/ \* Do, Download: the remote service executes the call object held
           /\ s.step \in {"Do", "Download"}
           /\ LET obj == calls[r.ref[1]]
              IN /\ remote' = RemoteAfter(remote,
                                Append(obj.request, Step(s.step, <<>>, obj.answer)))
                 /\ running' = [running EXCEPT ![p] = Answered(next, obj.answer)]
           /\ UNCHANGED <<calls, fs>>
        \/ \* osCreate: creates or truncates the destination
           /\ s.step = "osCreate"
           /\ fs' = FsAfter(fs, <<s>>)
           /\ running' = [running EXCEPT ![p] = Answered(next, s.ret)]
           /\ UNCHANGED <<calls, remote>>
        \/ \* ioCopy: writes the body into the file osCreate opened
           /\ s.step = "ioCopy"
           /\ fs' = FsAfter(fs, <<StepNamed(r.steps, "osCreate"), s>>)
           /\ running' = [running EXCEPT ![p] = Answered(next, s.ret)]
           /\ UNCHANGED <<calls, remote>>
        \/ \* the deferred Close calls
           /\ s.step \in {"f.Close", "Body.Close"}
           /\ running' = [running EXCEPT ![p] = next]
           /\ UNCHANGED <<calls, remote, fs>>
     /\ UNCHANGED <<panicked, newDriveService, osCreate, ioCopy, client, last, callsLeft>>

\* The call of goroutine p returns.
ReturnCall(p) ==
  LET r == running[p]
      call == CallOf(Effective(r))
  IN /\ CanReturn(p)
     /\ running' = [running EXCEPT ![p] =
                      [r EXCEPT !.state = "done", !.result = call.result,
                                !.err = call.err]]
     /\ last' = call
     /\ UNCHANGED <<panicked, newDriveService, osCreate, ioCopy, client, remote, fs,
                    callsLeft, calls>>

\* A Client that New has built, the package variables as the package sets
\* them, and no call under way.
InitConcurrent ==
  /\ newDriveService = "drive.NewService"
  /\ osCreate = "os.Create"
  /\ ioCopy = "io.Copy"
  /\ \E credsFilePath \in CredsFilePaths :
       LET call == NewCall(credsFilePath, [srv |-> <<Service>>, err |-> <<>>])
       IN client = call.result /\ last = call
  /\ remote = <<>>
  /\ fs = [p \in OutputFiles \cup {TmpName} |->
             IF p = <<"t", "/", "o">> THEN "old" ELSE "absent"]
  /\ callsLeft = 0
  /\ running = [p \in Procs |-> Idle]
  /\ calls = [slot \in Procs \X CallTypes |-> NoObject]
  /\ panicked = FALSE

NextConcurrent ==
  \E p \in Procs :
    \/ Call(p)
    \/ TakeStep(p)
    \/ ReturnCall(p)

SpecConcurrent == InitConcurrent /\ [][NextConcurrent]_vars

(***************************************************************************)
(* Properties                                                              *)
(***************************************************************************)

\* The texts the documented error messages are made of.
TxtCreatingFolder ==
  <<"c", "r", "e", "a", "t", "i", "n", "g", " ", "f", "o", "l", "d", "e", "r", " ">>
TxtCreatingFile ==
  <<"c", "r", "e", "a", "t", "i", "n", "g", " ", "f", "i", "l", "e", " ">>
TxtUnderParentFolders ==
  <<" ", "u", "n", "d", "e", "r", " ", "p", "a", "r", "e", "n", "t", " ", "f", "o", "l", "d", "e", "r", "s", " ">>
TxtGettingFile ==
  <<"g", "e", "t", "t", "i", "n", "g", " ", "f", "i", "l", "e", " ", "w", "i", "t", "h", " ", "i", "d", " ">>
TxtDeletingFile ==
  <<"d", "e", "l", "e", "t", "i", "n", "g", " ", "f", "i", "l", "e", " ", "w", "i", "t", "h", " ", "i", "d", " ">>
TxtAssigningRole ==
  <<"a", "s", "s", "i", "g", "n", "i", "n", "g", " ", "r", "o", "l", "e", " ">>
TxtOnFile ==
  <<" ", "o", "n", " ", "f", "i", "l", "e", " ", "w", "i", "t", "h", " ", "i", "d", " ">>
TxtToEmailAddress ==
  <<" ", "t", "o", " ", "e", "m", "a", "i", "l", " ", "a", "d", "d", "r", "e", "s", "s", " ">>
TxtToDomain ==
  <<" ", "t", "o", " ", "d", "o", "m", "a", "i", "n", " ">>
TxtToAnyone ==
  <<" ", "t", "o", " ", "a", "n", "y", "o", "n", "e">>
TxtDownloadingFile ==
  <<"d", "o", "w", "n", "l", "o", "a", "d", "i", "n", "g", " ", "f", "i", "l", "e", " ", "w", "i", "t", "h", " ", "i", "d", " ">>
TxtCreatingOutputFile ==
  <<"c", "r", "e", "a", "t", "i", "n", "g", " ", "o", "u", "t", "p", "u", "t", " ", "f", "i", "l", "e", " ">>
TxtWritingOutputFile ==
  <<"w", "r", "i", "t", "i", "n", "g", " ", "o", "u", "t", "p", "u", "t", " ", "f", "i", "l", "e", " ">>
TxtUpdatingFile ==
  <<"u", "p", "d", "a", "t", "i", "n", "g", " ", "f", "i", "l", "e", " ">>
TxtCreatingDriveService ==
  <<"c", "r", "e", "a", "t", "i", "n", "g", " ", "d", "r", "i", "v", "e", " ", "s", "e", "r", "v", "i", "c", "e">>
TxtColon ==
  <<":", " ">>

\* What the terminal step of the last call answered: the execute step (Do),
\* or for DownloadFile the Download step.
Terminal(call) ==
  IF call.op = "DownloadFile" THEN StepNamed(call.trace, "Download").ret
  ELSE StepNamed(call.trace, "Do").ret

ClientOperations ==
  {"CreateFolder", "UploadFile", "UpdateFile", "GetFileById", "DeleteFile",
   "AssignRoleToUserOnFile", "AssignRoleToGroupOnFile",
   "AssignRoleToDomainOnFile", "AssignRoleToAnyoneOnFile", "DownloadFile"}

RECURSIVE Spaced(_)
\* A list of strings as fmt prints it inside the brackets.
Spaced(l) ==
  IF l = <<>> THEN <<>>
  ELSE l[1] \o (IF Len(l) > 1 THEN <<" ">> \o Spaced(Tail(l)) ELSE <<>>)

Bracketed(l) == <<"[">> \o Spaced(l) \o <<"]">>

\* C1: for every folder name and every parent list, the empty one included,
\* when the create facade's execute step succeeded with a Remote File whose
\* identifier is X, CreateFolder returned exactly X and a nil error.
C1_CreateFolderReturnsId ==
  last.op = "CreateFolder" =>
    LET do == StepNamed(last.trace, "Do").ret
    IN do.err = <<>> =>
         /\ last.result = do.file[1].Id
         /\ last.err = <<>>

C1_Witness ==
  /\ last.op = "CreateFolder"
  /\ last.args[2] = <<>>
  /\ StepNamed(last.trace, "Do").ret.err = <<>>
  /\ last.result = <<"y">>

\* The context string documented for each operation, from its arguments.
DocumentedContext(call) ==
  LET a == call.args
      assigning == TxtAssigningRole \o a[1] \o TxtOnFile
  IN CASE call.op = "CreateFolder" ->
            TxtCreatingFolder \o a[1] \o TxtUnderParentFolders \o Bracketed(a[2])
       [] call.op = "UploadFile" ->
            TxtCreatingFile \o a[1].name \o TxtUnderParentFolders \o Bracketed(a[2])
       [] call.op = "UpdateFile" -> TxtUpdatingFile \o a[1]
       [] call.op = "GetFileById" -> TxtGettingFile \o a[1]
       [] call.op = "DeleteFile" -> TxtDeletingFile \o a[1]
       [] call.op = "AssignRoleToUserOnFile" ->
            assigning \o a[3] \o TxtToEmailAddress \o a[2]
       [] call.op = "AssignRoleToGroupOnFile" ->
            assigning \o a[3] \o TxtToEmailAddress \o a[2]
       [] call.op = "AssignRoleToDomainOnFile" ->
            assigning \o a[3] \o TxtToDomain \o a[2]
       [] call.op = "AssignRoleToAnyoneOnFile" ->
            assigning \o a[2] \o TxtToAnyone
       [] call.op = "DownloadFile" -> TxtDownloadingFile \o a[1]

\* C2: for every client operation, when its facade execute step failed with
\* a cause whose message is M, the error returned has the message
\* <context>: M, where <context> is the operation's context string; for
\* CreateFolder(name, parents) that is
\* "creating folder <name> under parent folders <parents>".
C2_ErrorIsContextColonCause ==
  last.op \in ClientOperations =>
    \A m \in Causes :
      Terminal(last).err = <<m>> =>
        last.err = <<DocumentedContext(last) \o TxtColon \o m>>

C2_Witness ==
  /\ last.op = "CreateFolder"
  /\ last.args = <<<<"%", "s">>, <<<<"x">>, <<"y">>>>>>
  /\ Terminal(last).err = <<<<"e">>>>
  /\ last.err = <<TxtCreatingFolder \o <<"%", "s">> \o TxtUnderParentFolders
                    \o <<"[", "x", " ", "y", "]">> \o <<":", " ", "e">>>>

\* name is the last element of path as filepath.Base defines it: "." for the
\* empty path, "/" for a path of separators only, and otherwise the
\* separator-free stretch of path that ends where only trailing separators
\* follow and starts at the beginning or right after a separator.
IsLastElementOf(name, path) ==
  IF path = <<>> THEN name = <<".">>
  ELSE IF \A k \in 1..Len(path) : path[k] = "/" THEN name = <<"/">>
  ELSE /\ name # <<>>
       /\ \A k \in 1..Len(name) : name[k] # "/"
       /\ \E i \in 1..Len(path), j \in 1..Len(path) :
            /\ SubSeq(path, i, j) = name
            /\ \A k \in (j + 1)..Len(path) : path[k] = "/"
            /\ i = 1 \/ path[i - 1] = "/"

\* C3: for every local source file, the name in the file descriptor that
\* UploadFile hands to the create facade is the last path element of the
\* source's name, whatever directories lead to it, and the descriptor's
\* parent list is the caller's parent list unchanged.
C3_UploadNameIsBaseName ==
  last.op = "UploadFile" =>
    LET file == StepNamed(last.trace, "Create").args[1]
    IN /\ IsLastElementOf(file.Name, last.args[1].name)
       /\ file.Parents = last.args[2]

C3_Witness ==
  /\ last.op = "UploadFile"
  /\ last.args[1].name = <<"d", "/", "a">>
  /\ StepNamed(last.trace, "Create").args[1].Name = <<"a">>
  /\ StepNamed(last.trace, "Create").args[1].Parents = <<<<"x">>, <<"y">>>>

\* C4: DownloadFile fails at exactly three points, the remote fetch, the
\* creation of the destination and the copy into it, and the error of each
\* carries its own context, "downloading file with id <fileId>", "creating
\* output file <outputFile>", "writing output file <outputFile>"; the three
\* contexts differ for every fileId and outputFile, so that the errors of
\* two different steps are never the same, whatever their causes.
C4_DownloadFailurePoints ==
  last.op = "DownloadFile" =>
    LET t == last.trace
        fetch == StepNamed(t, "Download").ret.err
        create == IF StepsNamed(t, "osCreate") = {} THEN <<>>
                  ELSE StepNamed(t, "osCreate").ret.err
        copy == IF StepsNamed(t, "ioCopy") = {} THEN <<>>
                ELSE StepNamed(t, "ioCopy").ret.err
        fetching == TxtDownloadingFile \o last.args[1]
        creating == TxtCreatingOutputFile \o last.args[2]
        writing == TxtWritingOutputFile \o last.args[2]
        contextOf == [s \in {"fetch", "create", "copy"} |->
                        Sprintf(CASE s = "fetch" -> fmtDownloadingFile
                                  [] s = "create" -> fmtCreatingOutputFile
                                  [] s = "copy" -> fmtWritingOutputFile,
                                <<Str(IF s = "fetch" THEN last.args[1]
                                      ELSE last.args[2])>>)]
    IN /\ last.err # <<>> <=> (fetch # <<>> \/ create # <<>> \/ copy # <<>>)
       /\ fetch # <<>> => last.err = <<fetching \o TxtColon \o fetch[1]>>
       /\ create # <<>> => last.err = <<creating \o TxtColon \o create[1]>>
       /\ copy # <<>> => last.err = <<writing \o TxtColon \o copy[1]>>
       /\ contextOf["fetch"] = fetching
       /\ contextOf["create"] = creating
       /\ contextOf["copy"] = writing
       /\ \A s1, s2 \in {"fetch", "create", "copy"} :
            s1 # s2 =>
              /\ contextOf[s1] # contextOf[s2]
              /\ \A m1, m2 \in Causes :
                   contextOf[s1] \o TxtColon \o m1 # contextOf[s2] \o TxtColon \o m2

C4_Witness ==
  /\ last.op = "DownloadFile"
  /\ last.args = <<<<"x">>, <<"o">>>>
  /\ StepsNamed(last.trace, "ioCopy") # {}
  /\ StepNamed(last.trace, "ioCopy").ret.err = <<<<"e">>>>
  /\ last.err = <<TxtWritingOutputFile \o <<"o", ":", " ", "e">>>>

\* The last call was a DownloadFile whose remote fetch, creation of the
\* destination and copy all succeeded.
DownloadSucceeded(call) ==
  /\ call.op = "DownloadFile"
  /\ StepNamed(call.trace, "Download").ret.err = <<>>
  /\ StepsNamed(call.trace, "osCreate") # {}
  /\ StepNamed(call.trace, "osCreate").ret.err = <<>>
  /\ StepsNamed(call.trace, "ioCopy") # {}
  /\ StepNamed(call.trace, "ioCopy").ret.err = <<>>

C6_NewFailsCleanly ==
  last.op = "New" =>
    LET made == StepNamed(last.trace, "newDriveService").ret
    IN /\ \A m \in Causes :
            made.err = <<m>> =>
              /\ last.result = <<>>
              /\ last.err = <<TxtCreatingDriveService \o TxtColon \o m>>
       /\ made.err = <<>> => (last.result # <<>> /\ last.err = <<>>)
       /\ ~(last.result # <<>> /\ last.err # <<>>)

C6_Witness ==
  /\ last.op = "New"
  /\ last.result = <<>>
  /\ last.err = <<TxtCreatingDriveService \o <<":", " ", "f">>>>

AssignOperations ==
  {"AssignRoleToUserOnFile", "AssignRoleToGroupOnFile",
   "AssignRoleToDomainOnFile", "AssignRoleToAnyoneOnFile"}

\* The grantee kind that goes with each variant.
KindOf(op) ==
  CASE op = "AssignRoleToUserOnFile" -> <<"u", "s", "e", "r">>
    [] op = "AssignRoleToGroupOnFile" -> <<"g", "r", "o", "u", "p">>
    [] op = "AssignRoleToDomainOnFile" -> <<"d", "o", "m", "a", "i", "n">>
    [] op = "AssignRoleToAnyoneOnFile" -> <<"a", "n", "y", "o", "n", "e">>

\* The grant the last call handed to the permission facade.
Grant(call) == StepNamed(call.trace, "pSrv.Create").args[2]

\* A grant's grantee identifier: its email address or its domain.
GranteeIdentifier(grant) == grant.EmailAddress \o grant.Domain

UpdateSteps(call) ==
  /\ Len(call.trace) = 4
  /\ call.trace[1].step = "Files"
  /\ call.trace[2].step = "Update"
  /\ call.trace[2].args = <<call.args[1], <<>>>>
  /\ call.trace[3].step = "Media"
  /\ call.trace[3].args = <<call.args[2]>>
  /\ call.trace[4].step = "Do"

\* C8, as first stated: UpdateFile(fileId, newContent) called the update
\* facade with fileId and no metadata object, attached newContent, executed
\* once, and on success returned the identifier fileId it was given; on
\* failure with cause M it returned the empty identifier and the error
\* "updating file <fileId>: M".
C8_ReturnsGivenId ==
  last.op = "UpdateFile" =>
    /\ UpdateSteps(last)
    /\ Terminal(last).err = <<>> => (last.result = last.args[1] /\ last.err = <<>>)
    /\ \A m \in Causes :
         Terminal(last).err = <<m>> =>
           /\ last.result = <<>>
           /\ last.err = <<TxtUpdatingFile \o last.args[1] \o TxtColon \o m>>

\* C8, amended: as stated, except that on success UpdateFile returned the
\* identifier of the Remote File that the execute step answered with, which
\* is fileId whenever the service answers with the file it was asked to
\* update.
C8_ReturnsAnsweredId ==
  last.op = "UpdateFile" =>
    /\ UpdateSteps(last)
    /\ Terminal(last).err = <<>> =>
         /\ last.result = Terminal(last).file[1].Id
         /\ last.err = <<>>
    /\ \A m \in Causes :
         Terminal(last).err = <<m>> =>
           /\ last.result = <<>>
           /\ last.err = <<TxtUpdatingFile \o last.args[1] \o TxtColon \o m>>

C8_Witness ==
  /\ last.op = "UpdateFile"
  /\ last.args[1] = <<"x">>
  /\ Terminal(last).err = <<>>
  /\ last.result = <<"x">>

\* The remote service gave every entity it holds an identifier of its own.
FreshIds(rem) ==
  \A i, j \in 1..Len(rem) : i # j => rem[i].Id # rem[j].Id

\* C9: creation is not idempotent. Against a remote service that issues a
\* fresh identifier for each create, every successful CreateFolder call sent
\* one create request and nothing else (no lookup, no token), left every
\* entity that was there in place, an identical folder of an earlier call
\* included, added one more folder, and returned that folder's identifier,
\* which differs from the identifier of every earlier folder.
C9_CreateFolderNotIdempotent ==
  [][(/\ callsLeft' < callsLeft
      /\ last'.op = "CreateFolder"
      /\ last'.err = <<>>
      /\ FreshIds(remote'))
       => /\ [k \in 1..Len(last'.trace) |-> last'.trace[k].step]
               = <<"Files", "Create", "Do">>
          /\ last'.trace[2].args
               = <<File(<<>>, last'.args[1], mimeType, last'.args[2])>>
          /\ Len(remote') = Len(remote) + 1
          /\ SubSeq(remote', 1, Len(remote)) = remote
          /\ remote'[Len(remote')] =
               [Id |-> last'.result, Name |-> last'.args[1], MimeType |-> mimeType,
                Parents |-> last'.args[2], Media |-> FALSE]
          /\ \A k \in 1..Len(remote) : remote[k].Id # last'.result]_vars

C9_Witness ==
  /\ last.op = "CreateFolder"
  /\ last.err = <<>>
  /\ FreshIds(remote)
  /\ Len(remote) = 2
  /\ remote[1].Name = remote[2].Name
  /\ remote[1].Parents = remote[2].Parents
  /\ remote[1].MimeType = mimeType
  /\ remote[2].MimeType = mimeType
  /\ remote[1].Id # remote[2].Id
  /\ last.result = remote[2].Id
  /\ last.args = <<remote[1].Name, remote[1].Parents>>

\* The steps that go to a facade, and among them the terminal ones.
FacadeSteps ==
  {"Files", "Create", "Get", "Delete", "Update", "Media", "pSrv.Create",
   "Do", "Download"}

TerminalSteps == {"Do", "Download"}

\* C10: no client operation retries. In every call of every operation the
\* facade's terminal step (Do or Download) was taken exactly once, and when
\* it failed the call took no facade step after it and returned an error.
C10_NoRetry ==
  last.op \in ClientOperations =>
    LET t == last.trace
        terminal == {i \in 1..Len(t) : t[i].step \in TerminalSteps}
    IN /\ Cardinality(terminal) = 1
       /\ \A i \in terminal :
            t[i].ret.err # <<>> =>
              /\ \A j \in (i + 1)..Len(t) : t[j].step \notin FacadeSteps
              /\ last.err # <<>>

C10_Witness ==
  /\ last.op = "DeleteFile"
  /\ last.err # <<>>
  /\ Cardinality(StepsNamed(last.trace, "Do")) = 1
  /\ last.trace[Len(last.trace)].step = "Do"

\* C11: once New has returned a Client, no call of a client operation,
\* whether it succeeds or fails and whatever was called before it, changes
\* the Client: the file facade and the permission facade it holds are the
\* same after the call as before it.
C11_OperationsLeaveClientAlone ==
  [][(callsLeft' < callsLeft /\ last'.op \in ClientOperations)
       => /\ client # <<>>
          /\ client' = client
          /\ client'[1].srv = client[1].srv
          /\ client'[1].pSrv = client[1].pSrv]_vars

\* An operation has failed on a Client that New built.
C11_Witness ==
  /\ last.op \in ClientOperations
  /\ last.err # <<>>
  /\ client # <<>>
  /\ client[1].pSrv = client[1].srv.psw

\* The three package variables.
Bindings == <<newDriveService, osCreate, ioCopy>>

\* C12, as first stated: the library has no shared mutable state but the
\* session handle, so every call of New and of a client operation runs with
\* the functions the package was loaded with; none of them is a binding
\* that was reassigned after load.
C12_CallsRunLoadedFunctions ==
  [][callsLeft' < callsLeft
       => Bindings = <<"drive.NewService", "os.Create", "io.Copy">>]_vars

\* C12, amended: besides the session handle the package holds three
\* function variables that can be reassigned after load.  No call of New or
\* of a client operation reassigns them, and a call runs the functions bound
\* when it is made: a DownloadFile whose three steps succeed opens the path
\* it was given exactly when osCreate is os.Create, and leaves the whole
\* body in the file it opened exactly when ioCopy is io.Copy.
C12_CallsFollowBindings ==
  [][callsLeft' < callsLeft
       => /\ Bindings' = Bindings
          /\ DownloadSucceeded(last')
               => LET f == StepNamed(last'.trace, "osCreate").ret.f[1]
                  IN /\ (osCreate = "os.Create") <=> (f.name = last'.args[2])
                     /\ (ioCopy = "io.Copy") <=> (fs'[f.name] = "full")]_vars

\* A download with both osCreate and ioCopy reassigned: it succeeds, names
\* another file than the path it was given and leaves that path as it was.
C12_Witness ==
  /\ osCreate = "stub"
  /\ ioCopy = "stub"
  /\ DownloadSucceeded(last)
  /\ last.args[2] = <<"t", "/", "o">>
  /\ last.result = TmpName
  /\ fs[<<"t", "/", "o">>] = "old"
  /\ fs[TmpName] = "empty"

\* The answer of the named step of a call was a success.
Succeeded(call, name) ==
  /\ StepsNamed(call.trace, name) # {}
  /\ StepNamed(call.trace, name).ret.err = <<>>

\* The named resource was closed exactly once, by a step that comes after
\* the step that opened it and after every step that uses it.
ClosedOnceAfter(call, close, open) ==
  /\ Cardinality(StepsNamed(call.trace, close)) = 1
  /\ \A i \in StepsNamed(call.trace, close) :
       /\ \A j \in StepsNamed(call.trace, open) : j < i
       /\ \A j \in StepsNamed(call.trace, "ioCopy") : j < i

\* C13: on each of the four ways out of DownloadFile (fetch failed, creation
\* of the destination failed, copy failed, success) the body of the response
\* was closed, once, exactly when the fetch returned one, and the
\* destination file was closed, once, exactly when it was created; the call
\* ends with nothing left open and closed nothing it had not opened.
C13_ClosesWhatItOpened ==
  last.op = "DownloadFile" =>
    /\ IF Succeeded(last, "Download")
         THEN ClosedOnceAfter(last, "Body.Close", "Download")
         ELSE StepsNamed(last.trace, "Body.Close") = {}
    /\ IF Succeeded(last, "osCreate")
         THEN ClosedOnceAfter(last, "f.Close", "osCreate")
         ELSE StepsNamed(last.trace, "f.Close") = {}
    /\ last.trace[Len(last.trace)].step \in {"Download", "Body.Close"}

\* A download whose copy failed part way: both the body and the destination
\* were open when the call gave up.
C13_Witness ==
  /\ last.op = "DownloadFile"
  /\ Succeeded(last, "osCreate")
  /\ StepsNamed(last.trace, "ioCopy") # {}
  /\ StepNamed(last.trace, "ioCopy").ret.err # <<>>
  /\ last.err # <<>>
  /\ StepsNamed(last.trace, "f.Close") # {}

\* C14: GetFileById(fileId) asked the get facade for fileId, once; when the
\* execute step succeeded it returned the record the facade produced, field
\* for field, and a nil error; when the execute step failed with cause M it
\* returned no record and the error "getting file with id <fileId>: M".
C14_GetFileByIdReturnsRecord ==
  last.op = "GetFileById" =>
    LET fileId == last.args[1]
        ans == StepNamed(last.trace, "Do").ret
    IN /\ Cardinality(StepsNamed(last.trace, "Get")) = 1
       /\ StepNamed(last.trace, "Get").args = <<fileId>>
       /\ IF ans.err = <<>>
            THEN /\ last.result = ans.file
                 /\ Len(last.result) = 1
                 /\ last.err = <<>>
            ELSE /\ last.result = <<>>
                 /\ last.err = <<TxtGettingFile \o fileId \o TxtColon \o ans.err[1]>>

\* GetFileById("y") was answered the record of another identifier, with a
\* name in it.
C14_Witness ==
  /\ last.op = "GetFileById"
  /\ last.args[1] = <<"y">>
  /\ last.err = <<>>
  /\ last.result[1].Id = <<"x">>
  /\ last.result[1].Name # <<>>

\* C15: DeleteFile(fileId) returned a nil error exactly when the delete
\* facade's execute step succeeded; when that step failed with cause M it
\* returned the error "deleting file with id <fileId>: M"; the error is all
\* it returned.
C15_DeleteFileErrorIffFailed ==
  last.op = "DeleteFile" =>
    LET fileId == last.args[1]
        ans == StepNamed(last.trace, "Do").ret
    IN /\ StepNamed(last.trace, "Delete").args = <<fileId>>
       /\ (last.err = <<>>) <=> (ans.err = <<>>)
       /\ ans.err # <<>>
            => last.err = <<TxtDeletingFile \o fileId \o TxtColon \o ans.err[1]>>
       /\ last.result = <<>>

\* A delete of "y" failed with cause "f".
C15_Witness ==
  /\ last.op = "DeleteFile"
  /\ last.args[1] = <<"y">>
  /\ StepNamed(last.trace, "Do").ret.err = <<<<"f">>>>
  /\ last.err # <<>>

\* C16: when the permission facade's execute step failed with cause M, the
\* call returned "assigning role <role> on file with id <fileId> to email
\* address <email>: M" for a user and for a group, "... to domain <domain>:
\* M" for a domain and "... to anyone: M" for anyone; when the step
\* succeeded it returned a nil error.
C16_AssignErrorNamesRoleFileGrantee ==
  last.op \in AssignOperations =>
    LET ans == StepNamed(last.trace, "Do").ret
        role == last.args[1]
        fileId == last.args[Len(last.args)]
        to == IF last.op = "AssignRoleToAnyoneOnFile" THEN TxtToAnyone
              ELSE IF last.op = "AssignRoleToDomainOnFile"
                     THEN TxtToDomain \o last.args[2]
              ELSE TxtToEmailAddress \o last.args[2]
    IN IF ans.err = <<>> THEN last.err = <<>>
       ELSE last.err = <<TxtAssigningRole \o role \o TxtOnFile \o fileId \o to
                           \o TxtColon \o ans.err[1]>>

\* A domain grant of the owner role on "y" failed with cause "e".
C16_Witness ==
  /\ last.op = "AssignRoleToDomainOnFile"
  /\ last.args = <<OwnerRole, <<"g">>, <<"y">>>>
  /\ StepNamed(last.trace, "Do").ret.err = <<<<"e">>>>
  /\ last.err # <<>>

\* The grantee argument of an AssignRoleTo*OnFile call; the anyone variant
\* takes none.
GranteeArgument(call) ==
  IF call.op = "AssignRoleToAnyoneOnFile" THEN <<>> ELSE call.args[2]

\* The grant went to the permission facade once, for the file id the caller
\* named and for no other.
SentForNamedFile(call) ==
  /\ Cardinality(StepsNamed(call.trace, "pSrv.Create")) = 1
  /\ StepNamed(call.trace, "pSrv.Create").args[1] = call.args[Len(call.args)]
  /\ Cardinality(StepsNamed(call.trace, "Do")) = 1

C18_UploadErrorNamesRemoteName ==
  last.op = "UploadFile" =>
    LET ans == StepNamed(last.trace, "Do").ret
        sent == StepNamed(last.trace, "Create").args[1]
    IN IF ans.err = <<>>
         THEN /\ last.result = ans.file[1].Id
              /\ last.err = <<>>
         ELSE /\ last.result = <<>>
              /\ last.err = <<TxtCreatingFile \o sent.Name \o TxtUnderParentFolders
                                \o Bracketed(last.args[2]) \o TxtColon \o ans.err[1]>>

\* Every step of the first name comes before every step of the second.
Precedes(call, first, second) ==
  \A i \in StepsNamed(call.trace, first), j \in StepsNamed(call.trace, second) :
    i < j

\* C19: DownloadFile took its three steps in the order remote fetch,
\* creation of the destination, copy, each at most once and each only when
\* every step before it had succeeded.  When the fetch failed, the
\* destination was neither created nor truncated (no file on the disk
\* changed) and nothing was copied; when the creation failed, nothing was
\* copied.
C19_FetchThenCreateThenCopy ==
  /\ [](last.op = "DownloadFile" =>
          /\ Cardinality(StepsNamed(last.trace, "Download")) = 1
          /\ Cardinality(StepsNamed(last.trace, "osCreate")) <= 1
          /\ Cardinality(StepsNamed(last.trace, "ioCopy")) <= 1
          /\ Precedes(last, "Download", "osCreate")
          /\ Precedes(last, "osCreate", "ioCopy")
          /\ StepsNamed(last.trace, "osCreate") # {} <=> Succeeded(last, "Download")
          /\ StepsNamed(last.trace, "ioCopy") # {} <=> Succeeded(last, "osCreate"))
  /\ [][(callsLeft' < callsLeft /\ last'.op = "DownloadFile"
           /\ ~Succeeded(last', "Download"))
          => fs' = fs]_vars
  /\ [][(callsLeft' < callsLeft /\ last'.op = "DownloadFile"
           /\ ~Succeeded(last', "osCreate"))
          => fs' = fs]_vars

\* A download to the existing file "t/o" whose fetch failed: the file still
\* has its old content.
C19_Witness ==
  /\ last.op = "DownloadFile"
  /\ last.args[2] = <<"t", "/", "o">>
  /\ ~Succeeded(last, "Download")
  /\ last.err # <<>>
  /\ fs[<<"t", "/", "o">>] = "old"

\* The steps of DownloadFile on the local file system and on the resources
\* it opened.
LocalSteps == {"osCreate", "ioCopy", "f.Close", "Body.Close"}

\* C20: when two goroutines call operations on the same Client at the same
\* time, then however their steps interleave, each call returns the result
\* and the error it returns when it runs alone with the same answers; a
\* call under way can always take its next step or return, without waiting
\* for the other (no step takes a lock), and the call object a goroutine
\* holds was written by that goroutine alone.
C20_SameResultsAsAlone ==
  \A p \in Procs :
    LET r == running[p]
    IN /\ r.state = "done"
            => /\ r.result = CallOf(r.plan).result
               /\ r.err = CallOf(r.plan).err
       /\ (r.state = "running" /\ r.ref # <<>>) => calls[r.ref[1]].owner = p
       /\ r.state = "running"
            => /\ CanTakeStep(p) \/ CanReturn(p)
               /\ CanTakeStep(p)
                    => r.steps[r.pc + 1].step \in FacadeSteps \cup LocalSteps

\* Two downloads to the same path "o" overlapped: q's copy wrote the whole
\* body and q has not returned yet, p's copy came after it, failed part way
\* and p has returned its error.
C20_Witness ==
  /\ running["q"].state = "running"
  /\ running["q"].plan.op = "DownloadFile"
  /\ running["q"].plan.args[2] = <<"o">>
  /\ \E i \in StepsNamed(running["q"].steps, "ioCopy") :
       i <= running["q"].pc /\ running["q"].steps[i].ret.wrote = "full"
  /\ running["p"].state = "done"
  /\ running["p"].plan.op = "DownloadFile"
  /\ running["p"].plan.args[2] = <<"o">>
  /\ running["p"].err # <<>>
  /\ fs[<<"o">>] = "partial"

TxtFolderMimeType ==
  <<"a","p","p","l","i","c","a","t","i","o","n","/","v","n","d",".","g","o","o","g","l","e","-","a","p","p","s",".","f","o","l","d","e","r">>

\* C21: CreateFolder sent the create facade a descriptor with the folder
\* MIME type "application/vnd.google-apps.folder", the name and the parents
\* it was given, and attached no content; UploadFile sent a descriptor
\* without the folder MIME type and attached the content before the execute
\* step.  So the entity a successful CreateFolder left at the remote service
\* is a folder with no content, and the one a successful UploadFile left is
\* not a folder and has content.
C21_FolderIffCreateFolder ==
  /\ [](last.op = "CreateFolder" =>
          /\ StepNamed(last.trace, "Create").args[1].MimeType = TxtFolderMimeType
          /\ StepNamed(last.trace, "Create").args[1].Name = last.args[1]
          /\ StepNamed(last.trace, "Create").args[1].Parents = last.args[2]
          /\ StepsNamed(last.trace, "Media") = {})
  /\ [](last.op = "UploadFile" =>
          /\ StepNamed(last.trace, "Create").args[1].MimeType # TxtFolderMimeType
          /\ StepNamed(last.trace, "Create").args[1].Parents = last.args[2]
          /\ Cardinality(StepsNamed(last.trace, "Media")) = 1
          /\ StepNamed(last.trace, "Media").args = <<last.args[1]>>
          /\ Precedes(last, "Create", "Media")
          /\ Precedes(last, "Media", "Do"))
  /\ [][(callsLeft' < callsLeft /\ last'.op \in {"CreateFolder", "UploadFile"}
           /\ last'.err = <<>>)
          => /\ Len(remote') = Len(remote) + 1
             /\ LET e == remote'[Len(remote')]
                IN /\ e.Id = last'.result
                   /\ (e.MimeType = TxtFolderMimeType) <=> (last'.op = "CreateFolder")
                   /\ e.Media <=> (last'.op = "UploadFile")]_vars

\* An upload of the source "d/a" left an entity with content that is not a
\* folder.
C21_Witness ==
  /\ last.op = "UploadFile"
  /\ last.err = <<>>
  /\ last.args[1].name = <<"d", "/", "a">>
  /\ remote # <<>>
  /\ remote[Len(remote)].Media
  /\ remote[Len(remote)].MimeType # TxtFolderMimeType

\* The copy step of a DownloadFile call failed after the destination was
\* created.
CopyFailed(call) ==
  /\ call.op = "DownloadFile"
  /\ Succeeded(call, "osCreate")
  /\ StepsNamed(call.trace, "ioCopy") # {}
  /\ StepNamed(call.trace, "ioCopy").ret.err # <<>>

\* C22: DownloadFile rolls nothing back.  When the copy step failed after
\* the destination was created, the call returned the empty path and the
\* error "writing output file <outputFile>: M", took no step after the copy
\* but the two Close calls, and left the file it had created or truncated
\* in place, empty or with part of the body: the file was neither removed
\* nor given back the content it had before the call.
C22_NoRollbackOfDestination ==
  [][(callsLeft' < callsLeft /\ CopyFailed(last'))
       => LET f == StepNamed(last'.trace, "osCreate").ret.f[1].name
              copy == CHOOSE i \in StepsNamed(last'.trace, "ioCopy") : TRUE
          IN /\ last'.result = <<>>
             /\ last'.err = <<TxtWritingOutputFile \o last'.args[2] \o TxtColon
                                \o StepNamed(last'.trace, "ioCopy").ret.err[1]>>
             /\ fs'[f] \in {"empty", "partial"}
             /\ fs'[f] # "absent"
             /\ fs[f] = "old" => fs'[f] # "old"
             /\ \A i \in (copy + 1)..Len(last'.trace) :
                  last'.trace[i].step \in {"f.Close", "Body.Close"}
             /\ \A p \in DOMAIN fs : p # f => fs'[p] = fs[p]]_vars

\* A download over the existing file "t/o" whose copy stopped part way: the
\* old content is gone and part of the body is in its place.
C22_Witness ==
  /\ CopyFailed(last)
  /\ last.args[2] = <<"t", "/", "o">>
  /\ last.result = <<>>
  /\ last.err # <<>>
  /\ fs[<<"t", "/", "o">>] = "partial"

\* The fixed role enumeration, by increasing privilege.
RoleEnumeration ==
  {<<"r", "e", "a", "d", "e", "r">>,
   <<"c", "o", "m", "m", "e", "n", "t", "e", "r">>,
   <<"w", "r", "i", "t", "e", "r">>,
   <<"f", "i", "l", "e", "O", "r", "g", "a", "n", "i", "z", "e", "r">>,
   <<"o", "r", "g", "a", "n", "i", "z", "e", "r">>,
   <<"o", "w", "n", "e", "r">>}

\* C23, as first stated: the role in every grant that reaches the permission
\* facade is one of the fixed role enumeration (reader, commenter, writer,
\* fileOrganizer, organizer, owner); a role string outside it is never
\* forwarded.
C23_RoleIsOfEnumeration ==
  last.op \in AssignOperations => Grant(last).Role \in RoleEnumeration

\* C23, amended: the role in the grant that reaches the permission facade is
\* the role string the caller passed, unchanged and unchecked: it is one of
\* the fixed enumeration exactly when the caller's string is, and the
\* package's six role constants are the six roles of the enumeration.
C23_RoleIsCallersRole ==
  /\ {OwnerRole, OrganizerRole, FileOrganizerRole, WriterRole, CommenterRole,
      ReaderRole} = RoleEnumeration
  /\ last.op \in AssignOperations =>
       /\ Grant(last).Role = last.args[1]
       /\ Grant(last).Role \in RoleEnumeration <=> last.args[1] \in RoleEnumeration

\* A user grant was made with the role "z", which is no role of the
\* enumeration, and reached the facade with that role in it.
C23_Witness ==
  /\ last.op = "AssignRoleToUserOnFile"
  /\ last.args[1] = <<"z">>
  /\ Grant(last).Role = <<"z">>
  /\ Grant(last).Role \notin RoleEnumeration
  /\ last.err = <<>>

\* The zero result of an operation: the empty identifier or path, the nil
\* record; DeleteFile and the AssignRoleTo*OnFile variants return an error
\* only.
ZeroResult == <<>>

\* C24: every call of every client operation ends in one of two ways: with a
\* nil error and the operation's result, or with an error and the zero
\* result; no call returns a result together with an error, and no call ends
\* the process.
C24_ResultOrErrorNeverPanic ==
  /\ ~panicked
  /\ last.op \in ClientOperations =>
       \/ last.err = <<>>
       \/ last.err # <<>> /\ Len(last.err) = 1 /\ last.result = ZeroResult

\* The content a call of UploadFile or UpdateFile is to attach.
ContentOf(plan) ==
  IF plan.op = "UploadFile" THEN plan.args[1] ELSE plan.args[Len(plan.args)]

\* C25: in the production facades the attach-content step (Media) hands
\* back the call it was invoked on, so that once a goroutine in UploadFile
\* or UpdateFile has taken that step, the call it holds, which is the call
\* its execute step runs, has the content attached, once, after the step
\* that built it.  The Client built by New holds a file facade and a
\* permission facade built from the one service object of the construction
\* step, its pSrv being the permission facade of its srv; and every call
\* works on that same file facade (or, for a grant, permission facade),
\* whichever goroutine asks and however often.
C25_ExecuteRunsOnCallWithContent ==
  /\ client # <<>>
  /\ client[1].srv.fsw = [srv |-> Service.Files]
  /\ client[1].srv.psw = [pSrv |-> Service.Permissions]
  /\ client[1].pSrv = client[1].srv.psw
  /\ \A p \in Procs :
       LET r == running[p]
       IN /\ r.svc # <<>>
               => r.svc[1] = IF r.plan.op \in AssignOperations
                               THEN client[1].srv.psw
                               ELSE client[1].srv.fsw
          /\ (/\ r.plan.op \in {"UploadFile", "UpdateFile"}
              /\ \E i \in StepsNamed(r.steps, "Media") : i <= r.pc)
               => LET call == calls[r.ref[1]]
                  IN /\ call.owner = p
                     /\ Cardinality(StepsNamed(call.request, "Media")) = 1
                     /\ StepNamed(call.request, "Media").args = <<ContentOf(r.plan)>>
                     /\ call.request[1].step \in {"Create", "Update"}
                     /\ \A i \in DOMAIN call.request :
                          call.request[i].step \in {"Create", "Update", "Media"}

\* Goroutine p's UploadFile has had its call executed with success: the
\* entity the remote service holds under the answered identifier has the
\* content.
C25_Witness ==
  /\ running["p"].state = "running"
  /\ running["p"].plan.op = "UploadFile"
  /\ running["p"].pc = Len(running["p"].steps)
  /\ running["p"].seen # <<>>
  /\ running["p"].seen[1].err = <<>>
  /\ running["p"].svc = <<client[1].srv.fsw>>
  /\ \E k \in 1..Len(remote) :
       /\ remote[k].Id = running["p"].seen[1].file[1].Id
       /\ remote[k].Media
       /\ remote[k].Name = <<"a">>

====
